---- MODULE Spec2Model ----
(***************************************************************************)
(* Order service of BE-Helper: the order state machine (orderService),     *)
(* its repositories (orders, order broadcasts) and the event publisher.    *)
(* Every request runs on its own goroutine: a service call is a sequence   *)
(* of steps on the shared store (GetByID, Save, MarkAsAccepted) followed   *)
(* by a best-effort publish, and the steps of different calls interleave.  *)
(* Then the location service (UpdateLocation), the websocket Hub of the    *)
(* order and chat services (Hub.Run) and the RabbitMQ consumers.           *)
(***************************************************************************)
EXTENDS Integers, FiniteSets, Sequences, Bags, TLC

\* ------------------------------------------------------------------ bounds
\* number of calls that enter the service while another call is inside it
MaxOverlap == 1
\* number of time.Now() readings taken by the service in one behaviour
MaxClock == 6
\* number of store or broker requests that fail in one behaviour
MaxFaults == 1
\* capacity of a connection's outbound queue (Client.send)
SendBuffer == 1
\* number of frames handed to Hub.Broadcast in one behaviour
MaxBroadcasts == 2
\* number of unregister requests sent to the hub in one behaviour
MaxUnregister == 3
\* number of position reports sent to the location service in one behaviour
MaxReports == 2
\* number of events the broker accepts from the publishers in one behaviour
MaxEvents == 2

\* number of chat messages saved in one behaviour
MaxMessages == 2
\* number of POST requests to send a notification in one behaviour
MaxRequests == 2

\* ------------------------------------------------------------- identifiers
OrderIDs == {"o1"}
Clients == {"c1"}
Providers == {"p1", "p2"}
Actors == Clients \cup Providers
Reasons == {"changed my mind"}

\* models.OrderStatus
OrderStatusPending == "PENDING"
OrderStatusAccepted == "ACCEPTED"
OrderStatusOnTheWay == "ON_THE_WAY"
OrderStatusArrived == "ARRIVED"
OrderStatusInProgress == "IN_PROGRESS"
OrderStatusCompleted == "COMPLETED"
OrderStatusCancelled == "CANCELLED"

\* a nil pointer (*uuid.UUID, *time.Time) and the zero time.Time{}
NilID == "nil"
NilTime == -1
ZeroTime == 0

\* models.Order: the columns the service reads or writes
EmptyRow ==
  [status |-> "", client |-> NilID, provider |-> NilID,
   broadcastTime |-> NilTime, acceptedTime |-> NilTime, arrivedTime |-> NilTime,
   startedTime |-> NilTime, completedTime |-> NilTime, cancelledTime |-> NilTime,
   cancelledBy |-> NilID, reason |-> ""]

\* models.OrderBroadcast: (order, provider) -> is_accepted of the rows of that pair
NoBroadcast == "none"
Notified == "notified"
Accepted == "accepted"

\* the value a call has returned: nothing yet
NoReturn ==
  [op |-> "", order |-> "", caller |-> NilID, seen |-> EmptyRow, result |-> ""]

\* the services of the repository that are modelled; each is a process of its
\* own, with its own tables, request goroutines and hub
OrderService == "order-service"
LocationService == "location-service"
ChatService == "chat-service"

\* websocket connections and the keys (order_id of the URL) they register
\* under: two connections opened for one order and one for another
Conns == {"w1", "w2", "w3"}
HubKeys == {"o1", "o2"}
Param(c) == IF c = "w3" THEN "o2" ELSE "o1"

\* Hub.clients[key]: no entry for the key
NoEntry == [ok |-> FALSE, set |-> {}]
\* a connection nobody has opened yet
NoConn == [orderID |-> "", send |-> <<>>, closed |-> 0]
\* Hub.Run waiting in its select
Select ==
  [pc |-> "select", key |-> "", rest |-> {}, found |-> {}, placed |-> {}, evicted |-> {}]

\* order_trackings: no row for the order
NoTracking == [provider |-> NilID, position |-> 0, status |-> ""]
\* positions a report carries
Positions == {1, 2}

VARIABLES
  service,     \* the service the behaviour is a run of
  clients,     \* Hub.clients: key -> [ok: the key has an entry, set: its connections]
  conn,        \* Client: connection -> [orderID, send: queued frames, closed: times send was closed]
  register,    \* Hub.register: the clients whose handler is blocked sending on it
  unregister,  \* Hub.unregister: connection -> number of goroutines blocked sending it
  broadcast,   \* Hub.broadcast: the buffered messages, oldest first
  run,         \* Hub.Run: where the loop is, and the clients map it is ranging over
  hubLog,      \* what callers asked of the hub and what the hub has handled
  tracking,    \* order_trackings table: order id -> row (NoTracking: no such row)
  history,     \* location_histories table: order id -> rows, oldest first
  reports,     \* number of position reports received
  accepted,    \* per order, the number of UpdateLocation calls that returned a response
  queues,      \* broker: queue name -> messages waiting, oldest first
  handling,    \* consumer of a queue: the delivery its handler is working on
  busLog,      \* what the broker accepted, and how each delivery ended
  notifications, \* notifications table of the notification service, oldest first
  mails,       \* the e-mails the notification service has sent: the events they are for
  messages,    \* chat_messages table of the order: [sender, read], oldest first
  cached,      \* Redis: the cached message list and the cached unread counts of the order
  delivered,   \* the messages whose SendMessage has returned
  answer,      \* the last return of a call of the chat service
  orders,      \* orders table: order id -> row (EmptyRow: no such row)
  broadcasts,  \* order_broadcasts table: <<order, provider>> -> NoBroadcast/Notified/Accepted
  calls,       \* request goroutines inside the service: bag of [pc, op, order, caller, seen, local]
  overlaps,    \* number of calls that entered while another call was inside
  clock,       \* wall clock: the last value time.Now() returned
  faults,      \* number of store or broker requests that have failed
  published,   \* events the broker accepted: routing key -> number of messages
  returned,    \* the last return of a service call: what it read and its result
  succeeded    \* per order, the <<operation, caller>> of the calls that returned the order

orderVars == <<orders, broadcasts, succeeded>>
callVars == <<calls, overlaps, clock, faults, published, returned>>
hubVars == <<clients, conn, register, unregister, broadcast, run, hubLog>>
locationVars == <<tracking, history, reports, accepted>>
busVars == <<queues, handling, busLog, notifications, mails>>

chatVars == <<messages, cached, delivered, answer>>

vars == <<service, orderVars, callVars, hubVars, locationVars, busVars, chatVars>>

RoutingKeys ==
  {"order.created", "order.accepted", "order.status.updated", "order.cancelled",
   "location.updated", "chat.message"}

\* the durable queues and their bindings: <<queue, exchange, routing key>>
\* (of notification_queue, the bindings for order events)
Queues == {"order.broadcast.queue", "order.accepted.queue", "notification_queue"}

Bindings ==
  {<<"order.broadcast.queue", "order.exchange", "order.created">>,
   <<"order.accepted.queue", "order.exchange", "order.accepted">>,
   <<"notification_queue", "order.events", "order.created">>,
   <<"notification_queue", "order.events", "order.updated">>,
   <<"notification_queue", "order.events", "order.cancelled">>}

\* the two parties of the chat of an order
Users == {"u1", "u2"}

\* redis.Nil: the key is not in the cache
Miss == -1

NoCache == [messages |-> Miss, unread |-> [u \in Users |-> Miss]]

NoAnswer == [op |-> "", user |-> "", value |-> 0, since |-> {}, error |-> FALSE]

\* a consumer that is waiting for its next delivery
NoDelivery == [id |-> 0, exchange |-> "", key |-> ""]

\* the state after main of service s has set up the process
Boot(s) ==
  /\ service = s
  /\ clients = [k \in HubKeys |-> NoEntry]
  /\ conn = [c \in Conns |-> NoConn]
  /\ register = {}
  /\ unregister = [c \in Conns |-> 0]
  /\ broadcast = <<>>
  /\ run = Select
  /\ hubLog = [sent |-> 0, handled |-> 0, asked |-> [c \in Conns |-> 0],
               unregistered |-> [c \in Conns |-> 0], evicted |-> {}]
  /\ tracking = [o \in OrderIDs |-> NoTracking]
  /\ history = [o \in OrderIDs |-> <<>>]
  /\ reports = 0
  /\ accepted = [o \in OrderIDs |-> 0]
  /\ queues = [q \in Queues |-> <<>>]
  /\ handling = [q \in Queues |-> NoDelivery]
  /\ busLog = [accepted |-> {}, routed |-> {}, acked |-> {}, failed |-> {},
               forwarded |-> {}]
  /\ notifications = <<>>
  /\ mails = <<>>
  /\ messages = <<>>
  /\ cached = NoCache
  /\ delivered = {}
  /\ answer = NoAnswer
  /\ orders = [o \in OrderIDs |-> EmptyRow]
  /\ broadcasts = [k \in OrderIDs \X Providers |-> NoBroadcast]
  /\ calls = EmptyBag
  /\ overlaps = 0
  /\ clock = 0
  /\ faults = 0
  /\ published = [k \in RoutingKeys |-> 0]
  /\ returned = NoReturn
  /\ succeeded = [o \in OrderIDs |-> {}]

Init == Boot(OrderService)

\* ------------------------------------------------------------ repositories
\* orderRepository.GetByID: the row, or an error when there is none
Exists(o) == orders[o].status # ""

\* ------------------------------------------------- request goroutine steps
\* what a call remembers of the row it read
Seen(row) == [EmptyRow EXCEPT !.status = row.status, !.client = row.client,
                              !.provider = row.provider]

\* a call returns: the goroutine leaves the service
Return(op, o, who, row, res) ==
  [op |-> op, order |-> o, caller |-> who, seen |-> Seen(row), result |-> res]

\* a call goes on to its next store or broker operation
Call(op, o, who, row, loc, next) ==
  [pc |-> next, op |-> op, order |-> o, caller |-> who, seen |-> Seen(row), local |-> loc]

\* the store or the broker answers a request, or fails it
Answer(ok) ==
  /\ ~ok => faults < MaxFaults
  /\ faults' = IF ok THEN faults ELSE faults + 1

\* a request arrives: gin runs the handler on a goroutine of its own
Arrive ==
  /\ calls = EmptyBag \/ overlaps < MaxOverlap
  /\ overlaps' = IF calls = EmptyBag THEN overlaps ELSE overlaps + 1

Enter(c) == calls' = calls (+) SetToBag({c})

Step(c, d) == calls' = (calls (-) SetToBag({c})) (+) SetToBag({d})

Leave(c) == calls' = calls (-) SetToBag({c})

\* orderService.CreateOrder up to the return of orderRepo.Create: the row is
\* inserted with the zero time as broadcast time; the time stamped afterwards
\* is set on the returned object only
NewOrder(c) ==
  [EmptyRow EXCEPT !.status = OrderStatusPending, !.client = c,
                   !.broadcastTime = ZeroTime]

CreateOrder(o, c, dbOk) ==
  /\ service = OrderService
  /\ Arrive
  /\ Answer(dbOk)
  /\ ~Exists(o)
  /\ clock < MaxClock
  /\ IF dbOk
       THEN /\ orders' = [orders EXCEPT ![o] = NewOrder(c)]
            /\ clock' = clock + 1
            /\ Enter(Call("create", o, c, EmptyRow,
                          [NewOrder(c) EXCEPT !.broadcastTime = clock + 1], "publish"))
            /\ UNCHANGED returned
       ELSE /\ returned' = Return("create", o, c, EmptyRow, "create_failed")
            /\ UNCHANGED <<orders, clock, calls>>
  /\ UNCHANGED <<broadcasts, published, succeeded>>
  /\ UNCHANGED <<service, hubVars, locationVars, busVars, chatVars>>

\* variant: the copy is written before the check has decided
ReadCheck_WriteBeforeCheck(op, o, who, verdict, loc, stamps) ==
  /\ service = OrderService
  /\ Arrive
  /\ IF ~Exists(o)
     THEN /\ returned' = Return(op, o, who, orders[o], "not_found")
          /\ UNCHANGED <<orders, calls, clock>>
     ELSE IF verdict # "ok"
     THEN /\ returned' = Return(op, o, who, orders[o], verdict)
          /\ orders' = [orders EXCEPT ![o] = loc]
          /\ UNCHANGED <<calls, clock>>
     ELSE /\ stamps => clock < MaxClock
          /\ clock' = IF stamps THEN clock + 1 ELSE clock
          /\ Enter(Call(op, o, who, orders[o], loc, "update"))
          /\ UNCHANGED <<orders, returned>>
  /\ UNCHANGED <<broadcasts, faults, published, succeeded>>
  /\ UNCHANGED <<service, hubVars, locationVars, busVars, chatVars>>

\* the part every read-check-write operation shares: GetByID fails, the check
\* rejects, or the call goes on with its changed copy and time.Now() is read
\* when the operation stamps a time
ReadCheck(op, o, who, verdict, loc, stamps) ==
  /\ service = OrderService
  /\ Arrive
  /\ IF ~Exists(o)
     THEN /\ returned' = Return(op, o, who, orders[o], "not_found")
          /\ UNCHANGED <<calls, clock>>
     ELSE IF verdict # "ok"
     THEN /\ returned' = Return(op, o, who, orders[o], verdict)
          /\ UNCHANGED <<calls, clock>>
     ELSE /\ stamps => clock < MaxClock
          /\ clock' = IF stamps THEN clock + 1 ELSE clock
          /\ Enter(Call(op, o, who, orders[o], loc, "update"))
          /\ UNCHANGED returned
  /\ UNCHANGED <<orders, broadcasts, faults, published, succeeded>>
  /\ UNCHANGED <<service, hubVars, locationVars, busVars, chatVars>>

\* orderService.AcceptOrder, lines 80-95: read, check, change the copy
AcceptOrderCheck(row) ==
  IF row.status # OrderStatusPending THEN "conflict" ELSE "ok"

AcceptOrder(o, p) ==
  ReadCheck("accept", o, p, AcceptOrderCheck(orders[o]),
            [orders[o] EXCEPT !.provider = p, !.status = OrderStatusAccepted,
                              !.acceptedTime = clock + 1], TRUE)

\* variant: the provider is not compared with the caller
UpdateToOnTheWayCheck_NoOwnerCheck(row, p) ==
  IF row.status # OrderStatusAccepted THEN "invalid_state" ELSE "ok"

\* variant: the comparison of provider and caller is inverted
UpdateToOnTheWayCheck_OwnerRejected(row, p) ==
  IF row.status # OrderStatusAccepted THEN "invalid_state"
  ELSE IF row.provider = NilID \/ row.provider = p THEN "unauthorized"
  ELSE "ok"

\* orderService.UpdateToOnTheWay, lines 117-133
UpdateToOnTheWayCheck(row, p) ==
  IF row.status # OrderStatusAccepted THEN "invalid_state"
  ELSE IF row.provider = NilID \/ row.provider # p THEN "unauthorized"
  ELSE "ok"

UpdateToOnTheWay(o, p) ==
  ReadCheck("on-the-way", o, p, UpdateToOnTheWayCheck(orders[o], p),
            [orders[o] EXCEPT !.status = OrderStatusOnTheWay], FALSE)

\* variant: the status is compared with ACCEPTED, as in UpdateToOnTheWay
UpdateToArrivedCheck_FromAccepted(row, p) ==
  IF row.status # OrderStatusAccepted THEN "invalid_state"
  ELSE IF row.provider = NilID \/ row.provider # p THEN "unauthorized"
  ELSE "ok"

\* orderService.UpdateToArrived, lines 149-167
UpdateToArrivedCheck(row, p) ==
  IF row.status # OrderStatusOnTheWay THEN "invalid_state"
  ELSE IF row.provider = NilID \/ row.provider # p THEN "unauthorized"
  ELSE "ok"

UpdateToArrived(o, p) ==
  ReadCheck("arrived", o, p, UpdateToArrivedCheck(orders[o], p),
            [orders[o] EXCEPT !.status = OrderStatusArrived,
                              !.arrivedTime = clock + 1], TRUE)

\* variant: the assigned provider is not allowed to cancel
CancelOrderCheck_ClientOnly(row, who) ==
  IF row.status = OrderStatusCompleted \/ row.status = OrderStatusCancelled
  THEN "cannot_cancel"
  ELSE IF row.client # who THEN "unauthorized"
  ELSE "ok"

\* orderService.CancelOrder, lines 183-204
CancelOrderCheck(row, who) ==
  IF row.status = OrderStatusCompleted \/ row.status = OrderStatusCancelled
  THEN "cannot_cancel"
  ELSE IF row.client # who /\ (row.provider = NilID \/ row.provider # who)
  THEN "unauthorized"
  ELSE "ok"

CancelOrder(o, who, reason) ==
  ReadCheck("cancel", o, who, CancelOrderCheck(orders[o], who),
            [orders[o] EXCEPT !.status = OrderStatusCancelled,
                              !.cancelledTime = clock + 1,
                              !.cancelledBy = who, !.reason = reason], TRUE)

\* StartJob and CompleteJob of the service called by OrderHandler.StartJob and
\* OrderHandler.CompleteJob: AdvanceStatus of section 4.1 for IN_PROGRESS and
\* COMPLETED (caller is the assigned provider, status is the predecessor)
AdvanceStatusCheck(row, p, predecessor) ==
  IF row.provider = NilID \/ row.provider # p THEN "unauthorized"
  ELSE IF row.status # predecessor THEN "invalid_state"
  ELSE "ok"

StartJob(o, p) ==
  ReadCheck("start-job", o, p, AdvanceStatusCheck(orders[o], p, OrderStatusArrived),
            [orders[o] EXCEPT !.status = OrderStatusInProgress,
                              !.startedTime = clock + 1], TRUE)

CompleteJob(o, p) ==
  ReadCheck("complete-job", o, p, AdvanceStatusCheck(orders[o], p, OrderStatusInProgress),
            [orders[o] EXCEPT !.status = OrderStatusCompleted,
                              !.completedTime = clock + 1], TRUE)

\* orderRepository.Update: db.Save writes every column of the caller's copy
\* in one statement, whatever the row holds by now; a store error fails the call
Save(o, loc) == [orders EXCEPT ![o] = loc]

\* variant: a failed write is logged and the call goes on
Update_GoesOnAfterFailure(c, dbOk) ==
  /\ c.pc = "update"
  /\ Answer(dbOk)
  /\ orders' = IF dbOk THEN Save(c.order, c.local) ELSE orders
  /\ Step(c, [c EXCEPT !.pc = IF c.op = "accept" THEN "mark" ELSE "publish"])
  /\ UNCHANGED <<returned, broadcasts, overlaps, clock, published, succeeded>>
  /\ UNCHANGED <<service, hubVars, locationVars, busVars, chatVars>>

Update(c, dbOk) ==
  /\ c.pc = "update"
  /\ Answer(dbOk)
  /\ IF dbOk
       THEN /\ orders' = Save(c.order, c.local)
            /\ Step(c, [c EXCEPT !.pc = IF c.op = "accept" THEN "mark" ELSE "publish"])
            /\ UNCHANGED returned
       ELSE /\ Leave(c)
            /\ returned' = [op |-> c.op, order |-> c.order, caller |-> c.caller,
                            seen |-> c.seen, result |-> "update_failed"]
            /\ UNCHANGED orders
  /\ UNCHANGED <<broadcasts, overlaps, clock, published, succeeded>>
  /\ UNCHANGED <<service, hubVars, locationVars, busVars, chatVars>>

\* broadcastRepository.Create: one row for a candidate provider of the order
BroadcastCreate(o, p) ==
  /\ Exists(o)
  /\ broadcasts[<<o, p>>] = NoBroadcast
  /\ broadcasts' = [broadcasts EXCEPT ![<<o, p>>] = Notified]
  /\ UNCHANGED <<orders, calls, overlaps, clock, faults, published, returned, succeeded>>
  /\ UNCHANGED <<service, hubVars, locationVars, busVars, chatVars>>

\* broadcastRepository.MarkAsAccepted: UPDATE ... WHERE order_id AND provider_id;
\* AcceptOrder logs its error and goes on
SetAccepted(o, p) ==
  [broadcasts EXCEPT ![<<o, p>>] = IF @ = NoBroadcast THEN @ ELSE Accepted]

\* variant: an error of MarkAsAccepted fails the accept
MarkAsAccepted_ErrorSurfaced(c, dbOk) ==
  /\ c.pc = "mark"
  /\ Answer(dbOk)
  /\ broadcasts' = IF dbOk THEN SetAccepted(c.order, c.caller) ELSE broadcasts
  /\ IF dbOk
       THEN /\ Step(c, [c EXCEPT !.pc = "publish"])
            /\ UNCHANGED returned
       ELSE /\ Leave(c)
            /\ returned' = [op |-> c.op, order |-> c.order, caller |-> c.caller,
                            seen |-> c.seen, result |-> "mark_failed"]
  /\ UNCHANGED <<orders, overlaps, clock, published, succeeded>>
  /\ UNCHANGED <<service, hubVars, locationVars, busVars, chatVars>>

MarkAsAccepted(c, dbOk) ==
  /\ c.pc = "mark"
  /\ Answer(dbOk)
  /\ broadcasts' = IF dbOk THEN SetAccepted(c.order, c.caller) ELSE broadcasts
  /\ Step(c, [c EXCEPT !.pc = "publish"])
  /\ UNCHANGED <<orders, overlaps, clock, published, returned, succeeded>>
  /\ UNCHANGED <<service, hubVars, locationVars, busVars, chatVars>>

\* EventPublisher.Publish*: the routing key of the event the operation emits
RoutingKey(op) ==
  CASE op = "create" -> "order.created"
    [] op = "accept" -> "order.accepted"
    [] op = "cancel" -> "order.cancelled"
    [] op = "location" -> "location.updated"
    [] OTHER -> "order.status.updated"

\* ------------------------------------------------------- location service
\* locationRepository.GetTrackingByOrderID: the row, or an error
Tracked(o) == tracking[o].status # ""

\* locationService.UpdateLocation up to the write of the tracking row: any error
\* of the lookup (no row, or the store failed) takes the create branch; the
\* update branch changes the position of the row it read
UpdateLocation(o, p, pos, dbOk) ==
  /\ service = LocationService
  /\ Arrive
  /\ Answer(dbOk)
  /\ reports < MaxReports
  /\ reports' = reports + 1
  /\ IF dbOk /\ Tracked(o)
       THEN Enter(Call("location", o, p, EmptyRow,
                       [tracking[o] EXCEPT !.position = pos], "update-tracking"))
       ELSE Enter(Call("location", o, p, EmptyRow,
                       [provider |-> p, position |-> pos, status |-> "ACTIVE"],
                       "create-tracking"))
  /\ UNCHANGED <<tracking, history, accepted, clock, published, returned>>
  /\ UNCHANGED <<service, orderVars, hubVars, busVars, chatVars>>

\* locationRepository.CreateTracking (order_id has a unique index) and
\* locationRepository.UpdateTracking (db.Save of the whole copy); an error of
\* either fails the call
TrackingWrite(c, dbOk) ==
  /\ c.pc \in {"create-tracking", "update-tracking"}
  /\ Answer(dbOk)
  /\ IF dbOk /\ (c.pc = "create-tracking" => ~Tracked(c.order))
       THEN /\ tracking' = [tracking EXCEPT ![c.order] = c.local]
            /\ Step(c, [c EXCEPT !.pc = "history"])
            /\ UNCHANGED returned
       ELSE /\ Leave(c)
            /\ returned' = [op |-> c.op, order |-> c.order, caller |-> c.caller,
                            seen |-> c.seen, result |-> "tracking_failed"]
            /\ UNCHANGED tracking
  /\ UNCHANGED <<history, reports, accepted, overlaps, clock, published>>
  /\ UNCHANGED <<service, orderVars, hubVars, busVars, chatVars>>

\* locationRepository.CreateLocationHistory: its error is logged and the call goes on
HistoryWrite(c, dbOk) ==
  /\ c.pc = "history"
  /\ Answer(dbOk)
  /\ history' = IF dbOk
                THEN [history EXCEPT ![c.order] =
                        Append(@, [provider |-> c.caller, position |-> c.local.position])]
                ELSE history
  /\ Step(c, [c EXCEPT !.pc = "publish"])
  /\ UNCHANGED <<tracking, reports, accepted, overlaps, clock, published, returned>>
  /\ UNCHANGED <<service, orderVars, hubVars, busVars, chatVars>>

\* --------------------------------------------------------- event publisher
\* variant: a failed publish fails the call
Publish_ErrorSurfaced(c, brokerOk) ==
  /\ c.pc = "publish"
  /\ Answer(brokerOk)
  /\ published' = IF brokerOk
                  THEN [published EXCEPT ![RoutingKey(c.op)] = @ + 1]
                  ELSE published
  /\ Leave(c)
  /\ returned' = [op |-> c.op, order |-> c.order, caller |-> c.caller,
                  seen |-> c.seen, result |-> IF brokerOk THEN "ok" ELSE "publish_failed"]
  /\ succeeded' = IF brokerOk
                  THEN [succeeded EXCEPT ![c.order] = @ \cup {<<c.op, c.caller>>}]
                  ELSE succeeded
  /\ accepted' = IF brokerOk /\ c.op = "location"
                 THEN [accepted EXCEPT ![c.order] = @ + 1]
                 ELSE accepted
  /\ UNCHANGED <<orders, broadcasts, overlaps, clock>>
  /\ UNCHANGED <<service, hubVars, tracking, history, reports, busVars, chatVars>>

\* the publish is best effort: its error is logged and the call returns the order
Publish(c, brokerOk) ==
  /\ c.pc = "publish"
  /\ Answer(brokerOk)
  /\ published' = IF brokerOk
                  THEN [published EXCEPT ![RoutingKey(c.op)] = @ + 1]
                  ELSE published
  /\ Leave(c)
  /\ returned' = [op |-> c.op, order |-> c.order, caller |-> c.caller,
                  seen |-> c.seen, result |-> "ok"]
  /\ succeeded' = [succeeded EXCEPT ![c.order] = @ \cup {<<c.op, c.caller>>}]
  /\ accepted' = IF c.op = "location"
                 THEN [accepted EXCEPT ![c.order] = @ + 1]
                 ELSE accepted
  /\ UNCHANGED <<orders, broadcasts, overlaps, clock>>
  /\ UNCHANGED <<service, hubVars, tracking, history, reports, busVars, chatVars>>

Next ==
  \/ \E o \in OrderIDs, c \in Clients : CreateOrder(o, c, TRUE)
  \/ \E o \in OrderIDs, p \in Providers : AcceptOrder(o, p)
  \/ \E o \in OrderIDs, p \in Providers : UpdateToOnTheWay(o, p)
  \/ \E o \in OrderIDs, p \in Providers : UpdateToArrived(o, p)
  \/ \E o \in OrderIDs, p \in Providers : StartJob(o, p)
  \/ \E o \in OrderIDs, p \in Providers : CompleteJob(o, p)
  \/ \E o \in OrderIDs, a \in Actors, r \in Reasons : CancelOrder(o, a, r)
  \/ \E c \in BagToSet(calls) : Update(c, TRUE)
  \/ \E c \in BagToSet(calls) : MarkAsAccepted(c, TRUE)
  \/ \E c \in BagToSet(calls) : Publish(c, TRUE)
  \/ \E o \in OrderIDs, p \in Providers : BroadcastCreate(o, p)

\* the store and the broker answer every request
Spec == Init /\ [][Next]_vars

\* the store or the broker may fail a request (infrastructure errors)
Fault ==
  \/ \E o \in OrderIDs, c \in Clients : CreateOrder(o, c, FALSE)
  \/ \E c \in BagToSet(calls) : Update(c, FALSE)
  \/ \E c \in BagToSet(calls) : MarkAsAccepted(c, FALSE)
  \/ \E c \in BagToSet(calls) : Publish(c, FALSE)

\* the location service, with a store that answers every request
LocationNext ==
  \/ \E o \in OrderIDs, p \in Providers, pos \in Positions : UpdateLocation(o, p, pos, TRUE)
  \/ \E c \in BagToSet(calls) : TrackingWrite(c, TRUE)
  \/ \E c \in BagToSet(calls) : HistoryWrite(c, TRUE)

LocationFault ==
  \/ \E o \in OrderIDs, p \in Providers, pos \in Positions : UpdateLocation(o, p, pos, FALSE)
  \/ \E c \in BagToSet(calls) : TrackingWrite(c, FALSE)
  \/ \E c \in BagToSet(calls) : HistoryWrite(c, FALSE)

InitFaulty == \E s \in {OrderService, LocationService} : Boot(s)

\* requests are served one after the other: no call arrives while another is
\* inside (what a call does when a request of its own fails depends on no
\* other call)
NextFaulty ==
  /\ Next \/ Fault \/ LocationNext \/ LocationFault
  /\ overlaps' = overlaps

\* a run of the order service or of the location service in which the store
\* and the broker may fail requests
SpecFaulty == InitFaulty /\ [][NextFaulty]_vars

\* the location service with requests that may overlap and a store and a
\* broker that may fail requests
NextLocation ==
  \/ LocationNext
  \/ LocationFault
  \/ \E c \in BagToSet(calls) : Publish(c, TRUE)
  \/ \E c \in BagToSet(calls) : Publish(c, FALSE)

SpecLocation == Boot(LocationService) /\ [][NextLocation]_vars

\* ---------------------------------------------------------------- handlers
\* what a request can carry where an identifier is expected: the text of a
\* uuid, text that is not a uuid, or nothing
Malformed == "not-a-uuid"
Missing == ""

IDParams == OrderIDs \cup {Malformed}
ProviderInputs == Providers \cup {Malformed, Missing}

\* uuid.Parse returns an error
ParseFails(s) == s \in {Malformed, Missing}

\* a JSON body: whether it is JSON at all, and its fields (position 0 stands
\* for latitude and longitude left out or zero)
Bodies ==
  [parsable : BOOLEAN, order : IDParams, provider : ProviderInputs,
   position : Positions \cup {0}]

\* variant: provider_id is not required
BindAcceptOrderRequest_NotRequired(body) ==
  body.parsable /\ body.provider # Malformed

\* c.ShouldBindJSON into AcceptOrderRequest: the body is JSON, provider_id is
\* the text of a uuid, and binding:"required" rejects a provider_id left out
BindAcceptOrderRequest(body) ==
  body.parsable /\ ~ParseFails(body.provider)

\* c.ShouldBindJSON into UpdateLocationRequest: order_id, service_provider_id,
\* latitude and longitude are required
BindUpdateLocationRequest(body) ==
  /\ body.parsable
  /\ ~ParseFails(body.order)
  /\ ~ParseFails(body.provider)
  /\ body.position # 0

\* c.JSON(http.StatusBadRequest, ...); return
BadRequest(op, param) ==
  /\ returned' = Return(op, param, NilID, EmptyRow, "bad_request")
  /\ UNCHANGED <<calls, overlaps, clock, faults, published>>
  /\ UNCHANGED <<service, orderVars, hubVars, locationVars, busVars, chatVars>>

\* OrderHandler.AcceptOrder
HandleAcceptOrder(param, body) ==
  /\ service = OrderService
  /\ IF ParseFails(param) \/ ~BindAcceptOrderRequest(body)
       THEN BadRequest("accept", param)
       ELSE AcceptOrder(param, body.provider)

\* the provider of OrderHandler.UpdateToOnTheWay and UpdateToArrived: the
\* query parameter provider_id, or the header X-Provider-ID when that is empty
ProviderOf(query, header) == IF query = Missing THEN header ELSE query

\* OrderHandler.UpdateToOnTheWay
HandleUpdateToOnTheWay(param, query, header) ==
  /\ service = OrderService
  /\ IF ParseFails(param) \/ ParseFails(ProviderOf(query, header))
       THEN BadRequest("on-the-way", param)
       ELSE UpdateToOnTheWay(param, ProviderOf(query, header))

\* OrderHandler.UpdateToArrived
HandleUpdateToArrived(param, query, header) ==
  /\ service = OrderService
  /\ IF ParseFails(param) \/ ParseFails(ProviderOf(query, header))
       THEN BadRequest("arrived", param)
       ELSE UpdateToArrived(param, ProviderOf(query, header))

\* LocationHandler.UpdateLocation
HandleUpdateLocation(body) ==
  /\ service = LocationService
  /\ IF ~BindUpdateLocationRequest(body)
       THEN BadRequest("location", body.order)
       ELSE UpdateLocation(body.order, body.provider, body.position, TRUE)

\* the order service and the location service behind their HTTP handlers,
\* requests served one after the other
NextHandlers ==
  /\ \/ \E o \in OrderIDs, c \in Clients : CreateOrder(o, c, TRUE)
     \/ \E param \in IDParams, body \in Bodies : HandleAcceptOrder(param, body)
     \/ \E param \in IDParams, query, header \in ProviderInputs :
          HandleUpdateToOnTheWay(param, query, header)
     \/ \E param \in IDParams, query, header \in ProviderInputs :
          HandleUpdateToArrived(param, query, header)
     \/ \E body \in Bodies : HandleUpdateLocation(body)
     \/ \E c \in BagToSet(calls) : Update(c, TRUE)
     \/ \E c \in BagToSet(calls) : MarkAsAccepted(c, TRUE)
     \/ \E c \in BagToSet(calls) : Publish(c, TRUE)
     \/ \E c \in BagToSet(calls) : TrackingWrite(c, TRUE)
     \/ \E c \in BagToSet(calls) : HistoryWrite(c, TRUE)
  /\ overlaps' = overlaps

SpecHandlers == InitFaulty /\ [][NextHandlers]_vars

\* ------------------------------------------------------------------ broker
\* the events publishers hand to the broker: <<exchange, routing key>> of
\* EventPublisher.PublishOrderCreated and PublishOrderAccepted of the order
\* service and of EventService.PublishOrderCreated of the shared events library
Published ==
  {<<"order.exchange", "order.created">>, <<"order.exchange", "order.accepted">>,
   <<"order.events", "order.created">>}

\* topic exchange: the queues bound to the exchange with the routing key
Route(exchange, key) == {q \in Queues : <<q, exchange, key>> \in Bindings}

\* the auto-ack argument of channel.Consume: RabbitMQ.Consume of the order
\* service passes true, EventConsumer.Start of the notification service false
AutoAck(q) == q # "notification_queue"

\* RabbitMQ.Publish returns nil: the broker has the message and puts a copy on
\* every queue bound for it
PublishEvent(exchange, key) ==
  /\ Cardinality(busLog.accepted) < MaxEvents
  /\ LET e == [id |-> Cardinality(busLog.accepted) + 1, exchange |-> exchange, key |-> key]
     IN /\ queues' = [q \in Queues |->
                        IF q \in Route(exchange, key) THEN Append(queues[q], e)
                        ELSE queues[q]]
        /\ busLog' = [busLog EXCEPT !.accepted = @ \cup {e},
                                    !.routed = @ \cup {<<q, e.id>> : q \in Route(exchange, key)}]
  /\ UNCHANGED <<handling, notifications, mails>>
  /\ UNCHANGED <<service, orderVars, callVars, hubVars, locationVars, chatVars>>

\* variant: the broker hands out the newest message of the queue
Deliver_NewestFirst(q) ==
  /\ handling[q] = NoDelivery
  /\ queues[q] # <<>>
  /\ handling' = [handling EXCEPT ![q] = queues[q][Len(queues[q])]]
  /\ IF AutoAck(q)
       THEN /\ queues' = [queues EXCEPT ![q] = SubSeq(@, 1, Len(@) - 1)]
            /\ busLog' = [busLog EXCEPT !.acked = @ \cup {<<q, queues[q][Len(queues[q])].id>>}]
       ELSE UNCHANGED <<queues, busLog>>
  /\ UNCHANGED <<notifications, mails>>
  /\ UNCHANGED <<service, orderVars, callVars, hubVars, locationVars, chatVars>>

\* for msg := range msgs: the broker delivers the oldest message of the queue;
\* with auto-ack the delivery is the acknowledgement, without it the message
\* stays with the broker until the consumer answers
Deliver(q) ==
  /\ handling[q] = NoDelivery
  /\ queues[q] # <<>>
  /\ handling' = [handling EXCEPT ![q] = Head(queues[q])]
  /\ IF AutoAck(q)
       THEN /\ queues' = [queues EXCEPT ![q] = Tail(@)]
            /\ busLog' = [busLog EXCEPT !.acked = @ \cup {<<q, Head(queues[q]).id>>}]
       ELSE UNCHANGED <<queues, busLog>>
  /\ UNCHANGED <<notifications, mails>>
  /\ UNCHANGED <<service, orderVars, callVars, hubVars, locationVars, chatVars>>

\* models.NotificationChannel, and a channel that is none of them
ChannelEmail == "email"
ChannelSMS == "sms"
ChannelPush == "push"
RequestChannels == {ChannelEmail, ChannelSMS, ChannelPush, "webhook"}

\* models.NotificationStatus
StatusPending == "pending"
StatusSent == "sent"
StatusFailed == "failed"

\* the event id of a notification that is sent for no event
NoEvent == 0

\* NotificationService.updateNotificationStatus
updateNotificationStatus(row, status) == [row EXCEPT !.status = status]

\* the switch of SendNotification on the channel: the row after it, and
\* whether SendNotification returns from inside it
ChannelSwitch(row, sent) ==
  CASE row.channel = ChannelEmail ->
         IF sent THEN [row |-> [row EXCEPT !.delivered = TRUE], returns |-> FALSE]
         ELSE [row |-> updateNotificationStatus(row, StatusFailed), returns |-> TRUE]
    [] row.channel \in {ChannelSMS, ChannelPush} ->
         [row |-> updateNotificationStatus(row, StatusFailed), returns |-> FALSE]
    [] OTHER ->
         [row |-> updateNotificationStatus(row, StatusFailed), returns |-> TRUE]

\* NotificationService.SendNotification: the row is inserted as pending (the
\* call fails when the insert fails: stored is false), the switch on the
\* channel runs, and when the call has not returned from inside the switch the
\* status of the row is set to sent. The field delivered of the row records
\* whether the message went out on its channel.
SendNotification(id, channel, sent, stored) ==
  LET row == [event |-> id, channel |-> channel, status |-> StatusPending,
              delivered |-> FALSE]
      switch == ChannelSwitch(row, sent)
      last == IF switch.returns THEN switch.row
              ELSE updateNotificationStatus(switch.row, StatusSent)
  IN /\ notifications' = IF stored THEN Append(notifications, last) ELSE notifications
     /\ mails' = IF stored /\ last.delivered THEN Append(mails, id) ELSE mails

\* the handler of the delivery returns. StartOrderBroadcastListener and
\* StartOrderAcceptedListener publish the notification event and log a failure
\* of that publish; EventConsumer.processMessage acknowledges when ProcessEvent
\* succeeded and rejects with requeue when it failed, and ProcessEvent sends a
\* notification for order.created
Handle(q, ok) ==
  /\ handling[q] # NoDelivery
  /\ Answer(ok)
  /\ handling' = [handling EXCEPT ![q] = NoDelivery]
  /\ queues' = IF ok /\ ~AutoAck(q) THEN [queues EXCEPT ![q] = Tail(@)] ELSE queues
  /\ IF q = "notification_queue" /\ handling[q].key = "order.created"
       THEN \E stored \in BOOLEAN :
              /\ ok => stored
              /\ SendNotification(handling[q].id, ChannelEmail, ok, stored)
       ELSE UNCHANGED <<notifications, mails>>
  /\ busLog' = IF ~ok THEN [busLog EXCEPT !.failed = @ \cup {<<q, handling[q].id>>}]
                ELSE IF AutoAck(q)
                       THEN [busLog EXCEPT !.forwarded = @ \cup {<<q, handling[q].id>>}]
                ELSE [busLog EXCEPT !.acked = @ \cup {<<q, handling[q].id>>},
                                    !.forwarded = @ \cup {<<q, handling[q].id>>}]
  /\ UNCHANGED <<orders, broadcasts, succeeded, calls, overlaps, clock, published, returned>>
  /\ UNCHANGED <<service, hubVars, locationVars, chatVars>>

\* the listener goroutines
Consumers ==
  \/ \E q \in Queues : Deliver(q)
  \/ \E q \in Queues : Handle(q, TRUE)
  \/ \E q \in Queues : Handle(q, FALSE)

NextBus ==
  \/ \E e \in Published : PublishEvent(e[1], e[2])
  \/ Consumers

\* the broker with its publishers and the consumers of its queues
SpecBus == Init /\ [][NextBus]_vars

\* the same, with listener goroutines that are not starved
SpecBusLive == SpecBus /\ WF_vars(Consumers)

\* NotificationHandler.SendNotification: POST of a notification on a channel
\* the request names, for no event
HandleSendNotification(channel, sent, stored) ==
  /\ Cardinality({k \in 1..Len(notifications) : notifications[k].event = NoEvent})
       < MaxRequests
  /\ SendNotification(NoEvent, channel, sent, stored)
  /\ UNCHANGED <<queues, handling, busLog>>
  /\ UNCHANGED <<service, orderVars, callVars, hubVars, locationVars, chatVars>>

NextNotify ==
  \/ NextBus
  \/ \E channel \in RequestChannels : \E sent, stored \in BOOLEAN :
       HandleSendNotification(channel, sent, stored)

\* the broker and the notification service with its HTTP endpoint
SpecNotify == Init /\ [][NextNotify]_vars

\* --------------------------------------------------------------------- hub
\* the services whose hub is modelled: websocket.Hub of the order service and
\* of the chat service
HubServices == {OrderService, ChatService}

\* capacity of Hub.broadcast
BroadcastBuffer == 256

\* h.clients[k] as a set: the connections registered under a key
Registered(k) == IF clients[k].ok THEN clients[k].set ELSE {}

\* variant: the handler puts the client into the registry itself
HandleWebSocket_WritesRegistry(c, k) ==
  /\ service \in HubServices
  /\ conn[c].orderID = ""
  /\ conn' = [conn EXCEPT ![c].orderID = k]
  /\ clients' = [clients EXCEPT ![k] = [ok |-> TRUE, set |-> @.set \cup {c}]]
  /\ UNCHANGED <<register, unregister, broadcast, run, hubLog>>
  /\ UNCHANGED <<service, orderVars, callVars, locationVars, busVars, chatVars>>

\* HandleOrderWebSocket / HandleWebSocket: NewClient(hub, conn, orderID), then
\* the send on Hub.register, which blocks until Hub.Run receives it
HandleWebSocket(c, k) ==
  /\ service \in HubServices
  /\ conn[c].orderID = ""
  /\ conn' = [conn EXCEPT ![c].orderID = k]
  /\ register' = register \cup {c}
  /\ UNCHANGED <<clients, unregister, broadcast, run, hubLog>>
  /\ UNCHANGED <<service, orderVars, callVars, locationVars, busVars, chatVars>>

\* Hub.Broadcast / Hub.BroadcastToOrder: a send on the buffered channel
Broadcast(k) ==
  /\ service \in HubServices
  /\ hubLog.sent < MaxBroadcasts
  /\ Len(broadcast) < BroadcastBuffer
  /\ broadcast' = Append(broadcast, k)
  /\ hubLog' = [hubLog EXCEPT !.sent = @ + 1]
  /\ UNCHANGED <<clients, conn, register, unregister, run>>
  /\ UNCHANGED <<service, orderVars, callVars, locationVars, busVars, chatVars>>

\* a goroutine of a connection whose handler has registered it sends the
\* client on Hub.unregister (Hub.Unregister() hands out the channel)
Asked == hubLog.asked["w1"] + hubLog.asked["w2"] + hubLog.asked["w3"]

Unregister(c) ==
  /\ conn[c].orderID # ""
  /\ c \notin register
  /\ Asked < MaxUnregister
  /\ unregister' = [unregister EXCEPT ![c] = @ + 1]
  /\ hubLog' = [hubLog EXCEPT !.asked[c] = @ + 1]
  /\ UNCHANGED <<clients, conn, register, broadcast, run>>
  /\ UNCHANGED <<service, orderVars, callVars, locationVars, busVars, chatVars>>

\* Client.WritePump: the connection takes the oldest frame of its queue
WritePump(c) ==
  /\ conn[c].send # <<>>
  /\ conn' = [conn EXCEPT ![c].send = Tail(@)]
  /\ UNCHANGED <<clients, register, unregister, broadcast, run, hubLog>>
  /\ UNCHANGED <<service, orderVars, callVars, locationVars, busVars, chatVars>>

\* Hub.Run, case client := <-h.register
HubRegister(c) ==
  /\ run.pc = "select"
  /\ c \in register
  /\ register' = register \ {c}
  /\ clients' = [clients EXCEPT ![conn[c].orderID] = [ok |-> TRUE, set |-> @.set \cup {c}]]
  /\ UNCHANGED <<conn, unregister, broadcast, run, hubLog>>
  /\ UNCHANGED <<service, orderVars, callVars, locationVars, busVars, chatVars>>

\* delete(clients, client); dropEmpty: the entry of the key goes with its last client
Remove(c, dropEmpty) ==
  [clients EXCEPT ![conn[c].orderID] =
     IF @.set \ {c} = {} /\ dropEmpty THEN NoEntry ELSE [ok |-> @.ok, set |-> @.set \ {c}]]

\* close(client.send); closing a closed channel panics
Close(c) == [conn EXCEPT ![c].closed = @ + 1]

Panic == [Select EXCEPT !.pc = "panic"]

\* variant: the client stays in the map and its channel stays open
HubUnregister_KeepsClient(c) ==
  /\ run.pc = "select"
  /\ unregister[c] > 0
  /\ unregister' = [unregister EXCEPT ![c] = @ - 1]
  /\ hubLog' = [hubLog EXCEPT !.unregistered[c] = @ + 1]
  /\ UNCHANGED <<clients, conn, run, register, broadcast>>
  /\ UNCHANGED <<service, orderVars, callVars, locationVars, busVars, chatVars>>

\* variant: delete and close without looking the client up
HubUnregister_NoLookup(c) ==
  /\ run.pc = "select"
  /\ unregister[c] > 0
  /\ unregister' = [unregister EXCEPT ![c] = @ - 1]
  /\ clients' = Remove(c, TRUE)
  /\ conn' = Close(c)
  /\ run' = IF conn[c].closed > 0 THEN Panic ELSE run
  /\ hubLog' = [hubLog EXCEPT !.unregistered[c] = @ + 1]
  /\ UNCHANGED <<register, broadcast>>
  /\ UNCHANGED <<service, orderVars, callVars, locationVars, busVars, chatVars>>

\* Hub.Run, case client := <-h.unregister
HubUnregister(c) ==
  /\ run.pc = "select"
  /\ unregister[c] > 0
  /\ unregister' = [unregister EXCEPT ![c] = @ - 1]
  /\ IF c \in Registered(conn[c].orderID)
       THEN /\ clients' = Remove(c, TRUE)
            /\ conn' = Close(c)
            /\ run' = IF conn[c].closed > 0 THEN Panic ELSE run
       ELSE UNCHANGED <<clients, conn, run>>
  /\ hubLog' = [hubLog EXCEPT !.unregistered[c] = @ + 1]
  /\ UNCHANGED <<register, broadcast>>
  /\ UNCHANGED <<service, orderVars, callVars, locationVars, busVars, chatVars>>

\* variant: the range is over the clients of every key
HubReceive_EveryKey ==
  /\ run.pc = "select"
  /\ broadcast # <<>>
  /\ broadcast' = Tail(broadcast)
  /\ run' = [Select EXCEPT !.pc = "range", !.key = Head(broadcast),
                           !.rest = UNION {Registered(k) : k \in HubKeys},
                           !.found = Registered(Head(broadcast))]
  /\ UNCHANGED <<clients, conn, register, unregister, hubLog>>
  /\ UNCHANGED <<service, orderVars, callVars, locationVars, busVars, chatVars>>

\* Hub.Run, case message := <-h.broadcast: the clients map of the message's key
HubReceive ==
  /\ run.pc = "select"
  /\ broadcast # <<>>
  /\ broadcast' = Tail(broadcast)
  /\ run' = [Select EXCEPT !.pc = "range", !.key = Head(broadcast),
                           !.rest = Registered(Head(broadcast)),
                           !.found = Registered(Head(broadcast))]
  /\ UNCHANGED <<clients, conn, register, unregister, hubLog>>
  /\ UNCHANGED <<service, orderVars, callVars, locationVars, busVars, chatVars>>

\* variant: a full queue drops the frame and keeps the client
HubSend_DropsFrame(c) ==
  /\ run.pc = "range"
  /\ c \in run.rest
  /\ IF Len(conn[c].send) < SendBuffer
       THEN /\ conn' = [conn EXCEPT ![c].send = Append(@, run.key)]
            /\ run' = [run EXCEPT !.rest = @ \ {c}, !.placed = @ \cup {c}]
       ELSE /\ run' = [run EXCEPT !.rest = @ \ {c}]
            /\ UNCHANGED conn
  /\ UNCHANGED <<clients, register, unregister, broadcast, hubLog>>
  /\ UNCHANGED <<service, orderVars, callVars, locationVars, busVars, chatVars>>

\* variant: the send has no default branch and waits for room in the queue
HubSend_Blocking(c) ==
  /\ run.pc = "range"
  /\ c \in run.rest
  /\ Len(conn[c].send) < SendBuffer
  /\ conn' = [conn EXCEPT ![c].send = Append(@, run.key)]
  /\ run' = [run EXCEPT !.rest = @ \ {c}, !.placed = @ \cup {c}]
  /\ UNCHANGED <<clients, register, unregister, broadcast, hubLog>>
  /\ UNCHANGED <<service, orderVars, callVars, locationVars, busVars, chatVars>>

\* Hub.Run, one round of for client := range clients: the non-blocking send on
\* client.send, or the default branch when the queue is full: close, delete
\* (the order hub deletes the entry of a key with its last client, the chat
\* hub leaves it)
HubSend(c) ==
  /\ run.pc = "range"
  /\ c \in run.rest
  /\ IF conn[c].closed > 0
       THEN /\ run' = Panic
            /\ UNCHANGED <<clients, conn>>
            /\ UNCHANGED hubLog
     ELSE IF Len(conn[c].send) < SendBuffer
       THEN /\ conn' = [conn EXCEPT ![c].send = Append(@, run.key)]
            /\ run' = [run EXCEPT !.rest = @ \ {c}, !.placed = @ \cup {c}]
            /\ UNCHANGED <<clients, hubLog>>
       ELSE /\ conn' = Close(c)
            /\ clients' = Remove(c, service = OrderService)
            /\ run' = [run EXCEPT !.rest = @ \ {c}, !.evicted = @ \cup {c}]
            /\ hubLog' = [hubLog EXCEPT !.evicted = @ \cup {c}]
  /\ UNCHANGED <<register, unregister, broadcast>>
  /\ UNCHANGED <<service, orderVars, callVars, locationVars, busVars, chatVars>>

\* Hub.Run: the range is over, back to the select
HubDone ==
  /\ run.pc = "range"
  /\ run.rest = {}
  /\ run' = Select
  /\ hubLog' = [hubLog EXCEPT !.handled = @ + 1]
  /\ UNCHANGED <<clients, conn, register, unregister, broadcast>>
  /\ UNCHANGED <<service, orderVars, callVars, locationVars, busVars, chatVars>>

\* the goroutine of Hub.Run
HubRun ==
  \/ \E c \in Conns : HubRegister(c)
  \/ \E c \in Conns : HubUnregister(c)
  \/ HubReceive
  \/ \E c \in Conns : HubSend(c)
  \/ HubDone

InitHub == \E s \in HubServices : Boot(s)

NextHub ==
  \/ \E c \in Conns : HandleWebSocket(c, Param(c))
  \/ \E k \in HubKeys : Broadcast(k)
  \/ \E c \in Conns : Unregister(c)
  \/ \E c \in Conns : WritePump(c)
  \/ HubRun

\* the hub of the order service or of the chat service, its callers and connections
SpecHub == InitHub /\ [][NextHub]_vars

\* the same, with a scheduler that does not starve the goroutine of Hub.Run
SpecHubLive == SpecHub /\ WF_vars(HubRun)

\* ----------------------------------------------------------- chat service
\* the order whose chat is modelled
ChatOrder == "o1"

\* ChatRepository.GetUnreadCount: the messages of the order not sent by the
\* user and not read
Unread(u) ==
  Cardinality({i \in 1..Len(messages) : messages[i].sender # u /\ ~messages[i].read})

Answered(op, u, value, since, err) ==
  [op |-> op, user |-> u, value |-> value, since |-> since, error |-> err]

\* variant: an error of SaveMessage is logged and the call goes on
SendMessage_GoesOnAfterFailure(u, dbOk) ==
  /\ service = ChatService
  /\ Arrive
  /\ Answer(dbOk)
  /\ Len(messages) < MaxMessages
  /\ messages' = IF dbOk THEN Append(messages, [sender |-> u, read |-> FALSE]) ELSE messages
  /\ Enter(Call("send", ChatOrder, u, EmptyRow, Len(messages) + 1, "invalidate"))
  /\ UNCHANGED <<cached, delivered, answer, clock, published, returned>>
  /\ UNCHANGED <<service, orderVars, hubVars, locationVars, busVars>>

\* ChatService.SendMessage up to the return of repo.SaveMessage: the row is
\* inserted, or the error is returned
SendMessage(u, dbOk) ==
  /\ service = ChatService
  /\ Arrive
  /\ Answer(dbOk)
  /\ Len(messages) < MaxMessages
  /\ IF dbOk
       THEN /\ messages' = Append(messages, [sender |-> u, read |-> FALSE])
            /\ Enter(Call("send", ChatOrder, u, EmptyRow, Len(messages) + 1, "invalidate"))
            /\ UNCHANGED answer
       ELSE /\ answer' = Answered("send", u, 0, {}, TRUE)
            /\ UNCHANGED <<messages, calls>>
  /\ UNCHANGED <<cached, delivered, clock, published, returned>>
  /\ UNCHANGED <<service, orderVars, hubVars, locationVars, busVars>>

\* RedisCache.InvalidateOrderCache: its error is logged
InvalidateOrderCache(c, cacheOk) ==
  /\ c.op = "send" /\ c.pc = "invalidate"
  /\ Answer(cacheOk)
  /\ cached' = IF cacheOk THEN [cached EXCEPT !.messages = Miss] ELSE cached
  /\ Step(c, [c EXCEPT !.pc = "broadcast"])
  /\ UNCHANGED <<messages, delivered, answer, overlaps, clock, published, returned>>
  /\ UNCHANGED <<service, orderVars, hubVars, locationVars, busVars>>

\* Hub.BroadcastToOrder: the send on the buffered broadcast channel of the hub
BroadcastToOrder(c) ==
  /\ c.op = "send" /\ c.pc = "broadcast"
  /\ Len(broadcast) < BroadcastBuffer
  /\ broadcast' = Append(broadcast, c.order)
  /\ hubLog' = [hubLog EXCEPT !.sent = @ + 1]
  /\ Step(c, [c EXCEPT !.pc = "publish-chat"])
  /\ UNCHANGED <<clients, conn, register, unregister, run>>
  /\ UNCHANGED <<overlaps, clock, faults, published, returned>>
  /\ UNCHANGED <<service, orderVars, locationVars, busVars, chatVars>>

\* RabbitMQ.PublishChatMessage, whose error SendMessage drops, and the return
\* of the message
PublishChatMessage(c, brokerOk) ==
  /\ c.op = "send" /\ c.pc = "publish-chat"
  /\ Answer(brokerOk)
  /\ published' = IF brokerOk THEN [published EXCEPT !["chat.message"] = @ + 1] ELSE published
  /\ Leave(c)
  /\ delivered' = delivered \cup {c.local}
  /\ answer' = Answered("send", c.caller, c.local, {}, FALSE)
  /\ UNCHANGED <<messages, cached, overlaps, clock, returned>>
  /\ UNCHANGED <<service, orderVars, hubVars, locationVars, busVars>>

\* ChatService.GetChatHistory up to the cache lookup: a hit returns the cached
\* list (a list is the number of messages it holds, oldest first)
GetChatHistory(u) ==
  /\ service = ChatService
  /\ Arrive
  /\ IF cached.messages # Miss
       THEN /\ answer' = Answered("history", u, cached.messages, delivered, FALSE)
            /\ UNCHANGED calls
       ELSE /\ Enter(Call("history", ChatOrder, u, EmptyRow,
                          [since |-> delivered, list |-> 0], "query"))
            /\ UNCHANGED answer
  /\ UNCHANGED <<messages, cached, delivered, clock, faults, published, returned>>
  /\ UNCHANGED <<service, orderVars, hubVars, locationVars, busVars>>

\* ChatRepository.GetChatHistory: the rows of the order; an empty list is
\* returned without being cached
QueryChatHistory(c) ==
  /\ c.op = "history" /\ c.pc = "query"
  /\ IF Len(messages) > 0
       THEN /\ Step(c, [c EXCEPT !.pc = "cache", !.local.list = Len(messages)])
            /\ UNCHANGED answer
       ELSE /\ Leave(c)
            /\ answer' = Answered("history", c.caller, 0, c.local.since, FALSE)
  /\ UNCHANGED <<messages, cached, delivered, overlaps, clock, faults, published, returned>>
  /\ UNCHANGED <<service, orderVars, hubVars, locationVars, busVars>>

\* RedisCache.CacheMessages, whose error is logged, and the return of the list
CacheMessages(c, cacheOk) ==
  /\ c.op = "history" /\ c.pc = "cache"
  /\ Answer(cacheOk)
  /\ cached' = IF cacheOk THEN [cached EXCEPT !.messages = c.local.list] ELSE cached
  /\ Leave(c)
  /\ answer' = Answered("history", c.caller, c.local.list, c.local.since, FALSE)
  /\ UNCHANGED <<messages, delivered, overlaps, clock, published, returned>>
  /\ UNCHANGED <<service, orderVars, hubVars, locationVars, busVars>>

\* ChatService.GetUnreadCount up to the cache lookup: a cached count is returned
GetUnreadCount(u) ==
  /\ service = ChatService
  /\ Arrive
  /\ IF cached.unread[u] >= 0
       THEN /\ answer' = Answered("unread", u, cached.unread[u], {}, FALSE)
            /\ UNCHANGED calls
       ELSE /\ Enter(Call("unread", ChatOrder, u, EmptyRow, 0, "count"))
            /\ UNCHANGED answer
  /\ UNCHANGED <<messages, cached, delivered, clock, faults, published, returned>>
  /\ UNCHANGED <<service, orderVars, hubVars, locationVars, busVars>>

\* ChatRepository.GetUnreadCount
CountUnread(c) ==
  /\ c.op = "unread" /\ c.pc = "count"
  /\ Step(c, [c EXCEPT !.pc = "cache-count", !.local = Unread(c.caller)])
  /\ UNCHANGED <<overlaps, clock, faults, published, returned>>
  /\ UNCHANGED <<service, orderVars, hubVars, locationVars, busVars, chatVars>>

\* RedisCache.CacheUnreadCount, whose error is logged, and the return of the count
CacheUnreadCount(c, cacheOk) ==
  /\ c.op = "unread" /\ c.pc = "cache-count"
  /\ Answer(cacheOk)
  /\ cached' = IF cacheOk THEN [cached EXCEPT !.unread[c.caller] = c.local] ELSE cached
  /\ Leave(c)
  /\ answer' = Answered("unread", c.caller, c.local, {}, FALSE)
  /\ UNCHANGED <<messages, delivered, overlaps, clock, published, returned>>
  /\ UNCHANGED <<service, orderVars, hubVars, locationVars, busVars>>

\* ChatService.MarkAsRead up to the return of repo.MarkAsRead: the unread
\* messages of the other party are set read, or the error is returned
MarkAsRead(u, dbOk) ==
  /\ service = ChatService
  /\ Arrive
  /\ Answer(dbOk)
  /\ IF dbOk
       THEN /\ messages' = [i \in 1..Len(messages) |->
                              IF messages[i].sender # u
                              THEN [messages[i] EXCEPT !.read = TRUE]
                              ELSE messages[i]]
            /\ Enter(Call("read", ChatOrder, u, EmptyRow, 0, "clear"))
            /\ UNCHANGED answer
       ELSE /\ answer' = Answered("read", u, 0, {}, TRUE)
            /\ UNCHANGED <<messages, calls>>
  /\ UNCHANGED <<cached, delivered, clock, published, returned>>
  /\ UNCHANGED <<service, orderVars, hubVars, locationVars, busVars>>

\* RedisCache.ClearUnreadCount, whose error is logged, and the return
ClearUnreadCount(c, cacheOk) ==
  /\ c.op = "read" /\ c.pc = "clear"
  /\ Answer(cacheOk)
  /\ cached' = IF cacheOk THEN [cached EXCEPT !.unread[c.caller] = Miss] ELSE cached
  /\ Leave(c)
  /\ answer' = Answered("read", c.caller, 0, {}, FALSE)
  /\ UNCHANGED <<messages, delivered, overlaps, clock, published, returned>>
  /\ UNCHANGED <<service, orderVars, hubVars, locationVars, busVars>>

\* the chat service with a store, a cache and a broker that answer
ChatNext ==
  \/ \E u \in Users : SendMessage(u, TRUE)
  \/ \E c \in BagToSet(calls) : InvalidateOrderCache(c, TRUE)
  \/ \E c \in BagToSet(calls) : BroadcastToOrder(c)
  \/ \E c \in BagToSet(calls) : PublishChatMessage(c, TRUE)
  \/ \E u \in Users : GetChatHistory(u)
  \/ \E c \in BagToSet(calls) : QueryChatHistory(c)
  \/ \E c \in BagToSet(calls) : CacheMessages(c, TRUE)
  \/ \E u \in Users : GetUnreadCount(u)
  \/ \E c \in BagToSet(calls) : CountUnread(c)
  \/ \E c \in BagToSet(calls) : CacheUnreadCount(c, TRUE)
  \/ \E u \in Users : MarkAsRead(u, TRUE)
  \/ \E c \in BagToSet(calls) : ClearUnreadCount(c, TRUE)

\* the store, the cache or the broker fails a request
ChatFault ==
  \/ \E u \in Users : SendMessage(u, FALSE)
  \/ \E c \in BagToSet(calls) : InvalidateOrderCache(c, FALSE)
  \/ \E c \in BagToSet(calls) : PublishChatMessage(c, FALSE)
  \/ \E c \in BagToSet(calls) : CacheMessages(c, FALSE)
  \/ \E c \in BagToSet(calls) : CacheUnreadCount(c, FALSE)
  \/ \E u \in Users : MarkAsRead(u, FALSE)
  \/ \E c \in BagToSet(calls) : ClearUnreadCount(c, FALSE)

NextChat == ChatNext \/ ChatFault

\* the chat service with requests that may overlap
SpecChat == Boot(ChatService) /\ [][NextChat]_vars

\* the chat service with requests served one after the other
NextChatSerial ==
  /\ NextChat
  /\ overlaps' = overlaps

SpecChatSerial == Boot(ChatService) /\ [][NextChatSerial]_vars

\* ------------------------------------------------------------------ claims
PostAcceptance ==
  {OrderStatusAccepted, OrderStatusOnTheWay, OrderStatusArrived,
   OrderStatusInProgress, OrderStatusCompleted, OrderStatusCancelled}

Terminal == {OrderStatusCompleted, OrderStatusCancelled}

\* the transition graph of section 4.1
Edge(a, b) ==
  \/ <<a, b>> \in {<<OrderStatusPending, OrderStatusAccepted>>,
                   <<OrderStatusAccepted, OrderStatusOnTheWay>>,
                   <<OrderStatusOnTheWay, OrderStatusArrived>>,
                   <<OrderStatusArrived, OrderStatusInProgress>>,
                   <<OrderStatusInProgress, OrderStatusCompleted>>}
  \/ (b = OrderStatusCancelled /\ a \notin Terminal)

Winners(o) == {p \in Providers : <<"accept", p>> \in succeeded[o]}

\* C1: of the AcceptOrder calls on an order at most one (exactly one of the
\* racing calls) returns success, and while only accepts have changed the
\* order the persisted provider is the caller that succeeded.
C1_ExactlyOneAcceptSucceeds ==
  \A o \in OrderIDs :
    /\ Cardinality(Winners(o)) <= 1
    /\ (returned.order = o /\ returned.op = "accept" /\ returned.result = "ok"
        /\ orders[o].status = OrderStatusAccepted)
         => orders[o].provider = returned.caller

\* C2: every change of an order's persisted status follows an edge of the
\* transition graph: one step forward, or CANCELLED from a non-terminal status.
C2_StatusFollowsGraph ==
  [][\A o \in OrderIDs :
       (Exists(o) /\ orders'[o].status # orders[o].status)
         => Edge(orders[o].status, orders'[o].status)]_vars

C4_ProviderSetOnceByAccept ==
  [][\A o \in OrderIDs :
       (Exists(o) /\ orders'[o].provider # orders[o].provider)
         => /\ orders[o].provider = NilID
            /\ \E c \in BagToSet(calls) :
                 /\ c.op = "accept" /\ c.pc = "update" /\ c.order = o
                 /\ c.caller = orders'[o].provider]_vars

\* the status an advance operation requires and the status it writes
Predecessor(op) ==
  CASE op = "on-the-way" -> OrderStatusAccepted
    [] op = "arrived" -> OrderStatusOnTheWay
    [] op = "start-job" -> OrderStatusArrived
    [] op = "complete-job" -> OrderStatusInProgress

Target(op) ==
  CASE op = "on-the-way" -> OrderStatusOnTheWay
    [] op = "arrived" -> OrderStatusArrived
    [] op = "start-job" -> OrderStatusInProgress
    [] op = "complete-job" -> OrderStatusCompleted

AdvanceOps == {"on-the-way", "arrived"}
JobOps == {"start-job", "complete-job"}

\* the last return is of a call that found the order and was made by someone
\* who is not the provider assigned to it
ByNonAssigned ==
  /\ returned.op \in AdvanceOps
  /\ returned.seen.status \in PostAcceptance
  /\ returned.caller # returned.seen.provider

\* C5 as stated: UpdateToOnTheWay and UpdateToArrived called by anyone but the
\* assigned provider return "unauthorized" in every post-acceptance status.
C5_NonAssignedGetsUnauthorized ==
  ByNonAssigned => returned.result = "unauthorized"

\* C5 amended: such a call always fails; the error is "unauthorized" when the
\* status read is the predecessor the operation requires, and the
\* invalid-state error in every other post-acceptance status.
C5_NonAssignedAlwaysFails ==
  ByNonAssigned =>
    returned.result = IF returned.seen.status = Predecessor(returned.op)
                      THEN "unauthorized" ELSE "invalid_state"

C5_Witness ==
  /\ returned.op = "on-the-way"
  /\ returned.seen.status = OrderStatusAccepted
  /\ returned.seen.provider = "p1"
  /\ returned.caller = "p2"
  /\ returned.result = "unauthorized"

\* C6: UpdateToOnTheWay returns the order only to the assigned provider of an
\* order it read as ACCEPTED, UpdateToArrived only to the assigned provider of
\* an order it read as ON_THE_WAY; read in any other status, both return the
\* invalid-state error.
C6_AdvanceOnlyFromPredecessor ==
  (returned.op \in AdvanceOps /\ returned.seen.status # "") =>
    /\ returned.result = "ok" =>
         /\ returned.seen.status = Predecessor(returned.op)
         /\ returned.seen.provider = returned.caller
    /\ returned.seen.status # Predecessor(returned.op) =>
         returned.result = "invalid_state"

C6_Witness ==
  /\ returned.op = "arrived"
  /\ returned.seen.status = OrderStatusAccepted
  /\ returned.seen.provider = returned.caller
  /\ returned.result = "invalid_state"

CanCancel(seen, who) ==
  /\ seen.status \notin Terminal
  /\ \/ who = seen.client
     \/ (seen.provider # NilID /\ who = seen.provider)

C8_CancelSucceedsExactlyWhenAllowed ==
  /\ [](returned.op = "cancel" /\ returned.seen.status # ""
          => (returned.result = "ok" <=> CanCancel(returned.seen, returned.caller)))
  /\ [][\A c \in BagToSet(calls) :
          (c.op = "cancel" /\ c.pc = "update" /\ Update(c, TRUE)) =>
             /\ orders'[c.order].status = OrderStatusCancelled
             /\ orders'[c.order].cancelledTime > ZeroTime
             /\ orders'[c.order].cancelledBy = c.caller
             /\ orders'[c.order].reason \in Reasons]_vars

C8_Witness ==
  /\ returned.op = "cancel"
  /\ returned.result = "ok"
  /\ returned.seen.status = OrderStatusOnTheWay
  /\ returned.caller = returned.seen.provider
  /\ orders[returned.order].status = OrderStatusCancelled
  /\ orders[returned.order].cancelledBy = returned.caller

\* C9: once a CancelOrder call on an order has returned success, the order's
\* persisted status stays CANCELLED and no call that arrives for the order
\* passes its check.
Cancelled(o) == \E a \in Actors : <<"cancel", a>> \in succeeded[o]

C9_CancelIsFinal ==
  [][\A o \in OrderIDs :
       Cancelled(o) =>
         /\ orders'[o].status = OrderStatusCancelled
         /\ \A c \in BagToSet(calls') :
              (c.order = o /\ c.pc = "update") => CopiesIn(c, calls') <= CopiesIn(c, calls)]_vars

\* C10: a call rejected for a state conflict leaves the order rows, the
\* Broadcast rows and the published events as they were, and every order row
\* holds whole transitions: the columns a transition writes are there together.
StateConflicts == {"conflict", "invalid_state", "unauthorized", "cannot_cancel"}

ServiceCall ==
  \/ \E o \in OrderIDs, p \in Providers :
       \/ AcceptOrder(o, p) \/ UpdateToOnTheWay(o, p) \/ UpdateToArrived(o, p)
       \/ StartJob(o, p) \/ CompleteJob(o, p)
  \/ \E o \in OrderIDs, a \in Actors, r \in Reasons : CancelOrder(o, a, r)

WholeRow(row) ==
  /\ (row.provider = NilID) <=> (row.acceptedTime = NilTime)
  /\ (row.status = OrderStatusPending) => (row.provider = NilID)
  /\ (row.status \in PostAcceptance \ {OrderStatusCancelled}) => (row.provider # NilID)
  /\ (row.status = OrderStatusCancelled) <=> (row.cancelledTime # NilTime)
  /\ (row.cancelledTime # NilTime) <=> (row.cancelledBy # NilID)
  /\ (row.cancelledTime # NilTime) <=> (row.reason # "")
  /\ (row.status = OrderStatusArrived) => (row.arrivedTime # NilTime)

C10_RejectedCallChangesNothing ==
  /\ [](\A o \in OrderIDs : Exists(o) => WholeRow(orders[o]))
  /\ [][(ServiceCall /\ calls' = calls /\ returned'.result \in StateConflicts)
          => UNCHANGED <<orders, broadcasts, published>>]_vars

C10_Witness ==
  /\ returned.op = "accept"
  /\ returned.result = "conflict"
  /\ returned.seen.status = OrderStatusAccepted
  /\ returned.seen.provider # returned.caller
  /\ orders[returned.order].provider = returned.seen.provider
  /\ broadcasts[<<returned.order, returned.caller>>] = Notified

\* C11: when the write of a mutation has succeeded and the publish that follows
\* fails, the call returns success, and the order, Broadcast, Tracking and
\* History rows stay as the write left them; a call that returned success has
\* its row in the store.
Mutations == {"create", "accept", "on-the-way", "arrived", "cancel", "location"}

C11_PublishFailureNotSurfaced ==
  /\ [](returned.result = "ok" =>
          IF returned.op = "location" THEN Tracked(returned.order)
          ELSE Exists(returned.order))
  /\ [][\A c \in BagToSet(calls) :
          (c.op \in Mutations /\ Publish(c, FALSE)) =>
             /\ returned'.result = "ok"
             /\ returned'.op = c.op /\ returned'.caller = c.caller
             /\ <<c.op, c.caller>> \in succeeded'[c.order]
             /\ UNCHANGED <<orders, broadcasts, tracking, history>>]_vars

C11_Witness ==
  /\ faults = 1
  /\ returned.op = "accept"
  /\ returned.result = "ok"
  /\ published["order.accepted"] = 0
  /\ orders[returned.order].status = OrderStatusAccepted
  /\ orders[returned.order].provider = returned.caller

\* Hub.Run has ranged over every client of the message's key
RangeOver == run.pc = "range" /\ run.rest = {}

\* every frame in a queue was broadcast under the key of the queue's connection
OwnKeyOnly ==
  \A c \in Conns : \A i \in DOMAIN conn[c].send : conn[c].send[i] = conn[c].orderID

\* C12 as stated: a frame broadcast under key K is placed on the queue of every
\* connection registered under K when the hub takes the broadcast, and on the
\* queue of no connection registered under another key.
C12_FrameOnEveryQueueOfKey ==
  /\ OwnKeyOnly
  /\ RangeOver => run.placed = run.found

\* C12 amended: the frame is placed on the queue of every connection
\* registered under K whose queue has room, a connection registered under K
\* whose queue is full is evicted instead, and no queue of another key changes.
C12_FrameOnEveryQueueWithRoom ==
  /\ [](OwnKeyOnly /\ (RangeOver => /\ run.placed \cup run.evicted = run.found
                                     /\ run.placed \cap run.evicted = {}))
  /\ [][\A c \in Conns :
          HubSend(c) =>
            /\ conn[c].orderID = run.key
            /\ c \in Registered(run.key)
            /\ \A d \in Conns \ {c} : conn'[d] = conn[d]
            /\ IF Len(conn[c].send) < SendBuffer
                 THEN conn'[c].send = Append(conn[c].send, run.key)
                 ELSE c \in run'.evicted /\ conn'[c].send = conn[c].send]_vars

C12_Witness ==
  /\ RangeOver
  /\ run.placed # {}
  /\ run.evicted # {}
  /\ \E d \in Conns : /\ conn[d].orderID \notin {"", run.key}
                       /\ d \in Registered(conn[d].orderID)
                       /\ conn[d].send = <<>>

\* C13: once the hub has handled an unregister request for a connection, the
\* connection is in no clients map and no frame is placed on its queue again.
C13_NoFrameAfterUnregister ==
  /\ [](\A c \in Conns :
          hubLog.unregistered[c] > 0 => \A k \in HubKeys : c \notin Registered(k))
  /\ [][\A c \in Conns :
          hubLog.unregistered[c] > 0 => Len(conn'[c].send) <= Len(conn[c].send)]_vars

C13_Witness ==
  \E c \in Conns :
    /\ hubLog.unregistered[c] > 0
    /\ hubLog.evicted = {}
    /\ RangeOver
    /\ run.key = conn[c].orderID
    /\ run.placed # {}
    /\ conn[c].send = <<>>

C15_FullQueueEvicted ==
  /\ [](RangeOver => \A d \in run.found \ run.evicted :
                       d \in run.placed /\ d \in Registered(run.key))
  /\ [][\A c \in Conns :
          (HubSend(c) /\ Len(conn[c].send) >= SendBuffer) =>
            /\ c \notin Registered(run.key)'
            /\ conn'[c].closed = 1
            /\ conn[c].closed = 0]_vars

C15_Witness ==
  /\ RangeOver
  /\ Cardinality(run.found) = 2
  /\ Cardinality(run.evicted) = 1
  /\ \A d \in run.placed : Len(conn[d].send) > 0

\* C16: under fairness of the run loop the hub always comes back to its select
\* with every register, unregister and broadcast request handled, whatever the
\* connections do with their queues.
HubQuiet ==
  /\ run.pc = "select"
  /\ register = {}
  /\ broadcast = <<>>
  /\ \A c \in Conns : unregister[c] = 0

C16_EveryRequestHandled ==
  /\ []<>HubQuiet
  /\ \A c \in Conns :
       (c \in register) ~> (\E k \in HubKeys : c \in Registered(k))

C16_Witness ==
  /\ HubQuiet
  /\ hubLog.handled = MaxBroadcasts
  /\ hubLog.evicted # {}
  /\ \E c \in Conns : Len(conn[c].send) = SendBuffer /\ conn[c].closed = 0

\* the operations that change the status of an existing order, and the orders
\* on which one of them has returned success
StateChanges == {"accept", "on-the-way", "arrived", "cancel"}

Changed(o) == \E op \in StateChanges, a \in Actors \cup Providers : <<op, a>> \in succeeded[o]

\* C17: every successful state change on an order is followed by a broadcast
\* on the hub under the key of the order: once the calls on the order have
\* returned, Hub.Broadcast has been called (hubLog.sent counts its calls).
\* Does not hold: no operation of the order service sends on Hub.broadcast.
C17_StateChangeBroadcast ==
  \A o \in OrderIDs : (Changed(o) /\ calls = EmptyBag) => hubLog.sent > 0

\* the producers of the order.created events: the order service publishes on
\* order.exchange
OrderCreated(e) == e.exchange = "order.exchange" /\ e.key = "order.created"

\* C18: a delivered message is acknowledged only after its handler has returned
\* without error (a message that is with its handler is not acknowledged yet),
\* and a message whose handler returned an error is back on its queue.
\* Does not hold for the queues of the order service, consumed with auto-ack.
C18_AckAfterHandler ==
  /\ [](\A q \in Queues :
          handling[q] # NoDelivery => <<q, handling[q].id>> \notin busLog.acked)
  /\ [][\A q \in Queues :
          Handle(q, FALSE) => /\ queues'[q] # <<>>
                              /\ Head(queues'[q]) = handling[q]]_vars

\* C19: every order.created event the broker has accepted from the order
\* service leads to a published notification.order.broadcast event, also when
\* a first attempt of the listener fails. Does not hold: the message was
\* acknowledged at delivery and a failed publish is only logged.
C19_NoEventLost ==
  \A i \in 1..MaxEvents :
    (\E e \in busLog.accepted : e.id = i /\ OrderCreated(e))
      ~> (<<"order.broadcast.queue", i>> \in busLog.forwarded)

\* C20: every order.created event published by the order service is put on
\* the queue of the order-broadcast consumer and on the queue of the
\* notification consumer. Does not hold: notification_queue is bound on the
\* exchange order.events, the order service publishes on order.exchange.
C20_FanOut ==
  \A e \in busLog.accepted :
    OrderCreated(e) =>
      \A q \in {"order.broadcast.queue", "notification_queue"} : <<q, e.id>> \in busLog.routed

\* ------------------------------------------------------- location claims
\* the newest row of the history of an order
Newest(o) == history[o][Len(history[o])]

\* C21: every position report UpdateLocation accepts appends exactly one
\* History row: once the calls have returned, an order has as many History
\* rows as accepted reports. Does not hold: an error of the insert of the
\* History row is logged and the report is accepted without a row.
C21_OneHistoryRowPerReport ==
  calls = EmptyBag => \A o \in OrderIDs : Len(history[o]) = accepted[o]

\* C22: once all calls have returned, the position of the Tracking row is the
\* position of the newest History row of the order (no request of the store
\* having failed). Does not hold: the write of the Tracking row and the
\* insert of the History row of two calls can interleave.
C22_TrackingIsNewestReport ==
  \A o \in OrderIDs :
    (calls = EmptyBag /\ faults = 0 /\ history[o] # <<>>) =>
        tracking[o].position = Newest(o).position

\* C23: every UpdateLocation call creates the Tracking row or updates it: with
\* a store that fails no request no call returns an error. Does not hold: of
\* two first reports in flight at once the second insert breaks the unique
\* index and its call fails.
C23_CreatesOrUpdates ==
  (returned.op = "location" /\ faults = 0) => returned.result = "ok"

\* C24: every successful UpdateLocation is followed by a broadcast of the
\* Tracking snapshot on the hub under the key of the order: once the calls have
\* returned, Hub.Broadcast has been called. Does not hold: the location
\* service never sends on Hub.broadcast.
C24_LocationBroadcast ==
  \A o \in OrderIDs : (accepted[o] > 0 /\ calls = EmptyBag) => hubLog.sent > 0

\* ---------------------------------------------------------- handler claims
\* a request that fails validation: a malformed order identifier, a provider
\* identifier that is malformed or missing, or a body that cannot be parsed
InvalidAccept(param, body) ==
  param = Malformed \/ ~body.parsable \/ body.provider \in {Malformed, Missing}

InvalidAdvance(param, query, header) ==
  \/ param = Malformed
  \/ query = Malformed
  \/ query = Missing /\ header \in {Malformed, Missing}

InvalidReport(body) ==
  ~body.parsable \/ body.order = Malformed \/ body.provider \in {Malformed, Missing}

\* the request is answered at once, the service layer is not entered and
\* neither a row nor the count of published events changes
RejectedUntouched ==
  /\ returned'.result = "bad_request"
  /\ UNCHANGED <<orders, broadcasts, tracking, history, published, calls, succeeded, accepted>>

\* C25: a request that fails validation is rejected before the service layer
\* is called: no order, Broadcast, Tracking or History row changes and no
\* event is published.
C25_InvalidRequestRejected ==
  [][/\ \A param \in IDParams, body \in Bodies :
          (InvalidAccept(param, body) /\ HandleAcceptOrder(param, body))
             => RejectedUntouched
     /\ \A param \in IDParams, query, header \in ProviderInputs :
          (/\ InvalidAdvance(param, query, header)
           /\ \/ HandleUpdateToOnTheWay(param, query, header)
              \/ HandleUpdateToArrived(param, query, header))
             => RejectedUntouched
     /\ \A body \in Bodies :
          (InvalidReport(body) /\ HandleUpdateLocation(body)) => RejectedUntouched]_vars

\* a request was rejected by a handler while the service had a row to change
C25_Witness ==
  /\ returned.result = "bad_request"
  /\ Exists("o1") \/ Tracked("o1")

\* C26: for every order.created event it consumes, the listener on
\* order.broadcast.queue first creates one Broadcast row per candidate provider
\* and then publishes the fan-out event: when the event of a delivery has been
\* published, the order has a Broadcast row for every candidate. Does not
\* hold: the listener creates no Broadcast row.
C26_RowsBeforeFanOut ==
  (\E e \in busLog.accepted : <<"order.broadcast.queue", e.id>> \in busLog.forwarded)
     => \A o \in OrderIDs, p \in Providers : broadcasts[<<o, p>>] # NoBroadcast

\* C27: the order CreateOrder returns and the order read back with GetOrder
\* agree on status, provider and broadcast time: when the call returns and no
\* other call has changed the row, the returned object (the local copy of the
\* call) and the row are equal in these fields. Does not hold: the broadcast
\* time is stamped on the returned object after the insert and never saved.
C27_ReturnedIsPersisted ==
  [][\A c \in BagToSet(calls) :
       (/\ c.op = "create"
        /\ orders[c.order] = NewOrder(c.caller)
        /\ Publish(c, TRUE))
          => /\ c.local.status = orders'[c.order].status
             /\ c.local.provider = orders'[c.order].provider
             /\ c.local.broadcastTime = orders'[c.order].broadcastTime]_vars

\* the rows of the notification store that are for event i
RowsFor(i) == {k \in 1..Len(notifications) : notifications[k].event = i}

MailsFor(i) == {k \in 1..Len(mails) : mails[k] = i}

\* C28: handling an event twice leaves the notification store and the
\* messages sent to users as handling it once does: however often an event is
\* delivered, the store has at most one row for it and at most one e-mail
\* is sent for it. Does not hold: every handling inserts a new row.
C28_HandlersIdempotent ==
  \A i \in 1..MaxEvents : Cardinality(RowsFor(i)) <= 1 /\ Cardinality(MailsFor(i)) <= 1

\* C29: an event is published once per state transition: over the life of an
\* order at most one order.accepted and at most one order.cancelled event are
\* published for it. Does not hold: two calls that read the same status both
\* write and both publish.
C29_OneEventPerTransition ==
  published["order.accepted"] <= 1 /\ published["order.cancelled"] <= 1

\* C30: within a mutation of an order the write comes before the publish: a
\* call that publishes has written, and the row has the status its event
\* carries (the status of the copy it saved); a call whose write fails returns
\* an error, marks no Broadcast row and publishes nothing.
C30_WriteBeforePublish ==
  [][/\ \A c \in BagToSet(calls) :
          (c.op \in StateChanges /\ (Publish(c, TRUE) \/ Publish(c, FALSE)))
             => orders[c.order].status = c.local.status
     /\ \A c \in BagToSet(calls) :
          Update(c, FALSE)
             => /\ returned'.result = "update_failed"
                /\ calls' = calls (-) SetToBag({c})
                /\ UNCHANGED <<orders, broadcasts, published>>]_vars

\* the write of a state change has failed after an earlier state change of the
\* order was written and published
C30_Witness ==
  /\ returned.result = "update_failed"
  /\ returned.op \in StateChanges
  /\ published["order.accepted"] = 1
  /\ calls = EmptyBag

\* C31: AcceptOrder marks the Broadcast row of the caller only after its own
\* write of the order has succeeded (the row of the order is ACCEPTED with the
\* caller as provider when the mark is made), and a failed mark does not fail
\* the accept: the call goes on and returns the order, persisted as ACCEPTED.
C31_MarkAfterWriteBestEffort ==
  [][/\ \A c \in BagToSet(calls) :
          (MarkAsAccepted(c, TRUE) \/ MarkAsAccepted(c, FALSE))
             => /\ orders[c.order].status = OrderStatusAccepted
                /\ orders[c.order].provider = c.caller
     /\ \A c \in BagToSet(calls) :
          MarkAsAccepted(c, FALSE)
             => /\ calls' = (calls (-) SetToBag({c})) (+) SetToBag({[c EXCEPT !.pc = "publish"]})
                /\ UNCHANGED <<orders, broadcasts, returned>>
     /\ \A c \in BagToSet(calls) :
          (c.op = "accept" /\ (Publish(c, TRUE) \/ Publish(c, FALSE)))
             => /\ returned'.result = "ok"
                /\ orders'[c.order].status = OrderStatusAccepted]_vars

\* an accept has returned the order although its Broadcast row could not be
\* marked: the row is there, not accepted, and the order is ACCEPTED
C31_Witness ==
  /\ returned.op = "accept"
  /\ returned.result = "ok"
  /\ faults = 1
  /\ orders[returned.order].status = OrderStatusAccepted
  /\ broadcasts[<<returned.order, returned.caller>>] = Notified

\* C32: AcceptOrder assigns an order only to a provider it was offered to: the
\* persisted provider of an order has a Broadcast row for it. Does not hold:
\* AcceptOrder never reads the Broadcast rows.
C32_AssignedWasOffered ==
  \A o \in OrderIDs :
    orders[o].provider # NilID => broadcasts[<<o, orders[o].provider>>] # NoBroadcast

\* the lifecycle timestamps of an order, in the order they are set
Stamps == <<"broadcastTime", "acceptedTime", "arrivedTime">>

\* C33: each lifecycle timestamp of an order is written at most once (once it
\* is set no write changes it) and is not earlier than the timestamp set
\* before it, under every interleaving. Does not hold: two calls that read
\* the same status both write their own time, and the whole-row Save of a
\* stale copy clears a time another call has set.
C33_StampedOnce ==
  /\ [][\A o \in OrderIDs : \A f \in {"broadcastTime", "acceptedTime", "arrivedTime", "cancelledTime"} :
          (Exists(o) /\ orders[o][f] # NilTime) => orders'[o][f] = orders[o][f]]_vars
  /\ [](\A o \in OrderIDs : \A i, j \in 1..Len(Stamps) :
          (i < j /\ orders[o][Stamps[i]] # NilTime /\ orders[o][Stamps[j]] # NilTime)
             => orders[o][Stamps[i]] <= orders[o][Stamps[j]])

\* the steps of the request goroutines of the hub: the WebSocket handlers, the
\* callers of Broadcast, the pumps of the connections
HubCallers ==
  \/ \E c \in Conns : HandleWebSocket(c, Param(c))
  \/ \E k \in HubKeys : Broadcast(k)
  \/ \E c \in Conns : Unregister(c)
  \/ \E c \in Conns : WritePump(c)

\* C34: the registry of the hub is changed only by steps of its run loop:
\* no step of a request goroutine changes it, and every change is a step of
\* Hub.Run.
C34_RegistryOwnedByRunLoop ==
  [][/\ HubCallers => clients' = clients
     /\ clients' # clients => HubRun]_vars

\* connections are registered, a request to register and a broadcast are
\* pending: request goroutines have acted while the registry is in use
C34_Witness ==
  /\ \E k \in HubKeys : Registered(k) # {}
  /\ register # {}
  /\ broadcast # <<>>
  /\ hubLog.handled > 0

\* C35: the notification consumer handles the messages of its queue one at a
\* time and in queue order: the delivery it is working on is the oldest
\* message of the queue, and when a message is with the handler or
\* acknowledged, every message put on the queue before it is acknowledged.
C35_OneAtATimeInOrder ==
  LET q == "notification_queue" IN
    /\ handling[q] # NoDelivery => (queues[q] # <<>> /\ handling[q] = Head(queues[q]))
    /\ \A i, j \in 1..MaxEvents :
         (/\ j < i
          /\ <<q, j>> \in busLog.routed
          /\ <<q, i>> \in busLog.acked \/ handling[q].id = i)
            => <<q, j>> \in busLog.acked

\* two messages were on the queue, the first was rejected and requeued once
\* and then acknowledged, and the second is with the handler
C35_Witness ==
  /\ <<"notification_queue", 1>> \in busLog.failed
  /\ <<"notification_queue", 1>> \in busLog.acked
  /\ handling["notification_queue"].id = 2

\* C36: SendMessage broadcasts under the order of the message and publishes
\* the chat event only after the message has been saved; when the save fails
\* the error is returned and nothing is broadcast, published or invalidated.
C36_SaveBeforeFanOut ==
  [][/\ \A c \in BagToSet(calls) :
          \/ InvalidateOrderCache(c, TRUE) \/ InvalidateOrderCache(c, FALSE)
          \/ BroadcastToOrder(c)
          \/ PublishChatMessage(c, TRUE) \/ PublishChatMessage(c, FALSE)
          => /\ c.local \in 1..Len(messages)
             /\ messages[c.local].sender = c.caller
     /\ \A c \in BagToSet(calls) :
          BroadcastToOrder(c) => broadcast' = Append(broadcast, c.order)
     /\ \A c \in BagToSet(calls) :
          PublishChatMessage(c, TRUE) =>
            published'["chat.message"] = published["chat.message"] + 1
     /\ \A u \in Users :
          SendMessage(u, FALSE) =>
            /\ answer' = Answered("send", u, 0, {}, TRUE)
            /\ calls' = calls
            /\ UNCHANGED <<messages, cached, broadcast, published>>
     /\ (broadcast' # broadcast /\ Len(broadcast') > Len(broadcast))
          => \E c \in BagToSet(calls) : BroadcastToOrder(c)
     /\ published' # published
          => \E c \in BagToSet(calls) : PublishChatMessage(c, TRUE)]_vars

\* a message was saved and sent out, and the save of a later one failed
C36_Witness ==
  /\ answer.op = "send" /\ answer.error
  /\ Len(messages) >= 1
  /\ hubLog.sent >= 1
  /\ published["chat.message"] >= 1
  /\ calls = EmptyBag

C38_HistoryCacheCoherent ==
  /\ answer.op = "history" => \A m \in answer.since : m <= answer.value
  /\ (calls = EmptyBag /\ cached.messages # Miss) => cached.messages = Len(messages)

\* C39: GetUnreadCount(O, U) returns the number of messages of order O not
\* sent by U that are unread in the store at the time of the call, after any
\* sequence of SendMessage, MarkAsRead and GetUnreadCount calls.
C39_UnreadCountIsStoreCount ==
  [][/\ \A u \in Users :
          (GetUnreadCount(u) /\ calls' = calls) => answer'.value = Unread(u)
     /\ \A c \in BagToSet(calls) :
          (CacheUnreadCount(c, TRUE) \/ CacheUnreadCount(c, FALSE))
            => answer'.value = Unread(c.caller)]_vars

\* C40: after SendNotification returns, the stored status of the notification
\* is sent only if the delivery on its channel succeeded; a notification on a
\* channel that is not implemented, on an unsupported channel, or whose e-mail
\* send failed ends with status failed.
C40_SentOnlyIfDelivered ==
  \A k \in 1..Len(notifications) :
    /\ notifications[k].status = StatusSent => notifications[k].delivered
    /\ ~notifications[k].delivered => notifications[k].status = StatusFailed

====
